---- MODULE Spec2Model ----
(***************************************************************************)
(* Model of the self-healing patch pipeline of aurum-ml-services:          *)
(*   - the persistence store        (self-healing-system/src/database.rs)  *)
(*   - the patch validator     (self-healing-system/src/patch_validator.rs)*)
(*   - the git operations      (self-healing-system/src/git_operations.rs) *)
(*   - the rate limiter        (self-healing-system/src/llm_integration.rs)*)
(*   - the patch generator    (self-healing-system/src/patch_generator.rs) *)
(*   - the static analyzer    (self-healing-system/src/static_analysis.rs) *)
(*   - the build monitor                   (build-monitor/src/monitor.rs)  *)
(* Each component has its own next-state relation and specification; the   *)
(* variables of the other components stay at their initial value.          *)
(***************************************************************************)
EXTENDS Integers, Sequences, FiniteSets, TLC

\* ------------------------------------------------------------------ bounds
MaxPatches == 2
MaxTasks == 2
MaxCommits == 2
MaxLimit == 2       \* largest requests_per_minute
MaxRequests == 4    \* check_rate_limit calls in a run
Window == 2         \* the limiter's 60 s window, in ticks
MaxTime == 4        \* last tick
MaxCandidates == 3  \* largest count of generate_multiple_patches
MaxScore == 2       \* confidence and safety levels 0..MaxScore
MaxIssues == 2
MaxStamp == 1       \* last timestamp an issue is resolved at
MaxFiles == 3       \* most source files of an analyzed project
MaxLines == 2       \* most lines of the file an issue points into
MaxDecls == 2       \* most function declarations of a source text
MaxSecond == 1      \* last second of the clock that stamps backup names
MaxChecks == 4      \* build outcomes the monitor handles in a run

PatchIds == 1..MaxPatches
IssueIds == 1..MaxIssues
TaskIds == 1..MaxTasks

VARIABLES
    \* persistence store and pipeline
    patches,        \* table `patches`: row per patch id
    generated,      \* GeneratedPatch.validation_status per patch id
    \* patch validator
    docker_available, \* PatchValidator.docker_available
    canonical,      \* what validation has done to the canonical workspace
    image_built,    \* docker image tag `patch-validation` exists
    task,           \* per validating task: position and locals
    \* git operations
    worktree,       \* content of the working directory
    index,          \* content of the git index
    commit_trees,   \* sequence of commit trees; commit i has tree commit_trees[i]
    head,           \* HEAD commit
    temp_patch,     \* temp_patch.patch exists in the repository directory
    git_last,       \* the apply_patch or cherry_pick call that just returned
    backup_branches, \* commits a backup/<base>/<timestamp> branch points at
    git_active,     \* per caller: the GitOperations method it is inside of
    \* rate limiter
    requests_per_minute, \* RateLimiter.requests_per_minute
    current_requests,    \* RateLimiter.current_requests (the atomic counter)
    now,            \* the time, in ticks
    calls,          \* the check_rate_limit calls so far, in order
    \* patch generator
    gen,            \* the PatchGenerator call in progress or just returned
    \* issue store
    issues,         \* table `issues`: row per issue id
    issue_last,     \* the issue-store call that just returned
    \* static analyzer
    analysis,       \* the StaticAnalyzer call in progress or just returned
    \* branches of the repository
    refs,           \* per branch name: the commit it points at, 0: no such branch
    current_branch, \* the branch HEAD names
    checked_out,    \* the commit whose files the working tree holds
    second,         \* the wall-clock second, as backup names are stamped
    branch_last,    \* the branch method call that just returned
    \* build monitor
    service_status, \* BuildMonitor.service_status: per service
    build_log,      \* the outcomes handled so far, in order
    monitor_last    \* the outcome just handled and whether it triggered a rollback

storeVars == <<patches, generated>>
validatorVars == <<docker_available, canonical, image_built, task>>
gitVars == <<worktree, index, commit_trees, head, temp_patch, git_last,
             backup_branches, git_active>>
limiterVars == <<requests_per_minute, current_requests, now, calls>>
generatorVars == <<gen>>
issueVars == <<issues, issue_last>>
analyzerVars == <<analysis>>
branchVars == <<refs, current_branch, checked_out, second, branch_last>>
monitorVars == <<service_status, build_log, monitor_last>>
vars == <<patches, generated, docker_available, canonical, image_built, task,
          worktree, index, commit_trees, head, temp_patch, git_last,
          backup_branches, git_active,
          requests_per_minute, current_requests, now, calls, gen,
          issues, issue_last, analysis,
          refs, current_branch, checked_out, second, branch_last,
          service_status, build_log, monitor_last>>

\* =====================================================================
\* Persistence store (database.rs)
\* =====================================================================

\* database.rs ValidationStatus: the status column of a stored patch.
ValidationStatus == {"Pending", "Running", "Success", "Failed", "Warning"}

\* patch_generator.rs ValidationStatus: the status field of a GeneratedPatch.
GenValidationStatus == {"Pending", "Validating", "Valid", "Invalid", "Rejected"}

\* Option<String> rollback_patch
RollbackOpt == {"None", "Some"}

\* A row of table patches (the columns the operations below read or write).
Patch == [present : {TRUE}, validation_status : ValidationStatus,
          applied : BOOLEAN, rollback_patch : RollbackOpt]

NoRow == [present |-> FALSE, validation_status |-> "Pending",
          applied |-> FALSE, rollback_patch |-> "None"]

\* The record of a newly generated patch, as callers build it before inserting:
\* status Pending, not applied, no rollback patch.
NewPatch == [present |-> TRUE, validation_status |-> "Pending",
             applied |-> FALSE, rollback_patch |-> "None"]

\* INSERT INTO patches ... : every column comes from the caller's Patch value.
create_patch(id, patch) ==
    /\ ~patches[id].present
    /\ patches' = [patches EXCEPT ![id] = patch]
    /\ UNCHANGED <<generated, validatorVars, gitVars,
                   limiterVars, generatorVars, issueVars, analyzerVars,
                   branchVars, monitorVars>>

\* UPDATE patches SET validation_status = ? ... WHERE id = ?
UpdateValidationRow(row, status) ==
    [row EXCEPT !.validation_status = status]

update_patch_validation(id, status) ==
    /\ patches' = [patches EXCEPT ![id] =
                     IF patches[id].present
                     THEN UpdateValidationRow(patches[id], status)
                     ELSE patches[id]]
    /\ UNCHANGED <<generated, validatorVars, gitVars,
                   limiterVars, generatorVars, issueVars, analyzerVars,
                   branchVars, monitorVars>>

\* UPDATE patches SET applied = true, rollback_patch = ? ... WHERE id = ?
MarkAppliedRow(row, rollback_patch) ==
    [row EXCEPT !.applied = TRUE, !.rollback_patch = rollback_patch]

mark_patch_applied(id, rollback_patch) ==
    /\ patches' = [patches EXCEPT ![id] =
                     IF patches[id].present
                     THEN MarkAppliedRow(patches[id], rollback_patch)
                     ELSE patches[id]]
    /\ UNCHANGED <<generated, validatorVars, gitVars,
                   limiterVars, generatorVars, issueVars, analyzerVars,
                   branchVars, monitorVars>>

\* The rollback the specification describes, on the content of the affected
\* files: a stored rollback patch restores the original content, a NULL one
\* leaves the files as they are.  main.rs calls PatchRollback::rollback_patch,
\* which no source file defines; nothing computes or applies a rollback patch.
PatchRollback_rollback_patch(content, rollback_patch) ==
    IF rollback_patch = "Some" THEN "orig" ELSE content

\* PatchGenerator::generate_patch builds a GeneratedPatch with status Pending.
generate_patch(id) ==
    /\ generated[id] = "None"
    /\ generated' = [generated EXCEPT ![id] = "Pending"]
    /\ UNCHANGED <<patches, validatorVars, gitVars,
                   limiterVars, generatorVars, issueVars, analyzerVars,
                   branchVars, monitorVars>>

\* Patch lifecycle of the pipeline: {Pending, Invalid} -> Rejected.
reject_patch(id) ==
    /\ generated[id] \in {"Pending", "Invalid"}
    /\ generated' = [generated EXCEPT ![id] = "Rejected"]
    /\ UNCHANGED <<patches, validatorVars, gitVars,
                   limiterVars, generatorVars, issueVars, analyzerVars,
                   branchVars, monitorVars>>

StoreInit ==
    /\ patches = [id \in PatchIds |-> NoRow]
    /\ generated = [id \in PatchIds |-> "None"]

StoreNext ==
    \/ \E id \in PatchIds : create_patch(id, NewPatch)
    \/ \E id \in PatchIds, status \in ValidationStatus :
          update_patch_validation(id, status)
    \/ \E id \in PatchIds, rb \in RollbackOpt : mark_patch_applied(id, rb)
    \/ \E id \in PatchIds : generate_patch(id)
    \/ \E id \in PatchIds : reject_patch(id)

\* =====================================================================
\* Patch validator (patch_validator.rs)
\* =====================================================================

\* The canonical workspace (config.workspace_root) as validation can change it:
\* the patches applied to its files and build artefacts written into it.
CanonicalInit == [patched |-> {}, artifacts |-> FALSE]

Stages == <<"build", "test", "security", "performance">>

\* The candidate patch task t validates (one candidate per task).
PatchOf(t) == ((t - 1) % MaxPatches) + 1

IdleTask == [pc |-> "idle", temp_dir |-> FALSE,
             copy_patched |-> FALSE, patch_file |-> FALSE,
             apply_outcome |-> "none", stages |-> <<>>,
             build_success |-> FALSE, test_success |-> FALSE,
             security_scan_passed |-> FALSE,
             build_exit |-> "none", security_outcome |-> FALSE,
             result |-> "none", status |-> "none", error |-> "none"]

\* A temp directory that is not removed when the guard goes out of scope.
TempDirKept(tk) == tk

\* Drop of the TempDir guard: the directory and everything in it is removed.
TempDirDrop(tk) ==
    [tk EXCEPT !.temp_dir = FALSE, !.copy_patched = FALSE, !.patch_file = FALSE]

\* `?` on an Err: the function returns the error, its locals are dropped.
ReturnErr(tk, msg) ==
    [TempDirDrop(tk) EXCEPT !.pc = "done", !.result = "Err", !.error = msg,
                            !.build_success = FALSE, !.test_success = FALSE,
                            !.security_scan_passed = FALSE,
                            !.build_exit = "none", !.security_outcome = FALSE]

\* The Warning branch testing the build outcome alone.
ClassifyBuildOnly(build_success, test_success, security_scan_passed) ==
    IF build_success /\ test_success /\ security_scan_passed THEN "Success"
    ELSE IF build_success THEN "Warning"
    ELSE "Failed"

\* validate_patch lines 108-114: overall status from the three gate outcomes.
Classify(build_success, test_success, security_scan_passed) ==
    IF build_success /\ test_success /\ security_scan_passed THEN "Success"
    ELSE IF build_success /\ test_success THEN "Warning"
    ELSE "Failed"

\* Entry of validate_patch / validate_with_docker: TempDir::new() and, on the
\* container path, create_dockerfile.
StartValidation(t, entry, fs) ==
    LET tk == task[t] IN
    /\ task[t].pc = "idle"
    /\ task' = [task EXCEPT ![t] =
         IF fs = "tempdir_error" THEN ReturnErr(tk, "io::Error")
         ELSE IF entry = "validate_with_docker" /\ docker_available
         THEN IF fs = "write_error"
              THEN ReturnErr([tk EXCEPT !.temp_dir = TRUE], "io::Error")
              ELSE [tk EXCEPT !.temp_dir = TRUE, !.pc = "docker_build"]
         ELSE [tk EXCEPT !.temp_dir = TRUE, !.pc = "setup"]]
    /\ UNCHANGED <<docker_available, canonical, image_built, storeVars, gitVars,
                   limiterVars, generatorVars, issueVars, analyzerVars,
                   branchVars, monitorVars>>

\* setup_test_workspace: cp -r workspace_root temp_path
setup_test_workspace(t, out) ==
    /\ task[t].pc = "setup"
    /\ task' = [task EXCEPT ![t] =
         CASE out = "spawn_error" ->
                ReturnErr(@, "Failed to copy workspace to temp directory")
           [] out = "nonzero" -> ReturnErr(@, "Failed to copy workspace")
           [] OTHER -> [@ EXCEPT !.pc = "apply"]]
    /\ UNCHANGED <<docker_available, canonical, image_built, storeVars, gitVars,
                   limiterVars, generatorVars, issueVars, analyzerVars,
                   branchVars, monitorVars>>

\* PatchValidator::apply_patch: write temp_patch.diff, git apply, remove file.
\* The patch goes to the files under workspace_path, the task's temp directory.
ApplyToCopy(tk) == [tk EXCEPT !.copy_patched = TRUE]

validator_apply_patch(t, out) ==
    /\ task[t].pc = "apply"
    /\ task' = [task EXCEPT ![t] =
         CASE out = "write_error" ->
                ReturnErr([@ EXCEPT !.apply_outcome = out], "io::Error")
           [] out = "spawn_error" ->
                ReturnErr([@ EXCEPT !.apply_outcome = out, !.patch_file = TRUE],
                          "Failed to apply patch")
           [] out = "conflict" ->
                ReturnErr([@ EXCEPT !.apply_outcome = out, !.patch_file = TRUE],
                          "Failed to apply patch with git apply")
           [] out = "remove_error" ->
                ReturnErr(ApplyToCopy([@ EXCEPT !.apply_outcome = out,
                                                !.patch_file = TRUE]),
                          "io::Error")
           [] OTHER ->
                [ApplyToCopy(@) EXCEPT !.apply_outcome = "applied",
                                       !.pc = "build"]]
    /\ UNCHANGED <<docker_available, canonical, image_built, storeVars, gitVars,
                   limiterVars, generatorVars, issueVars, analyzerVars,
                   branchVars, monitorVars>>

\* An exit status that is taken as success whatever it is.
ExitIgnored(out) == TRUE

\* ExitStatus::success()
ExitSuccess(out) == out = "success"

\* check_build: cargo check --workspace in the temp directory.  build_exit
\* keeps how the build command ended.
check_build(t, out) ==
    /\ task[t].pc = "build"
    /\ task' = [task EXCEPT ![t] =
         IF out = "spawn_error" THEN ReturnErr(@, "Failed to run cargo check")
         ELSE [@ EXCEPT !.build_success = ExitSuccess(out), !.build_exit = out,
                        !.stages = Append(@, "build"), !.pc = "test"]]
    /\ UNCHANGED <<docker_available, canonical, image_built, storeVars, gitVars,
                   limiterVars, generatorVars, issueVars, analyzerVars,
                   branchVars, monitorVars>>

\* check_tests: cargo test --workspace in the temp directory.
check_tests(t, out) ==
    /\ task[t].pc = "test"
    /\ task' = [task EXCEPT ![t] =
         IF out = "spawn_error" THEN ReturnErr(@, "Failed to run cargo test")
         ELSE [@ EXCEPT !.test_success = (out = "success"),
                        !.stages = Append(@, "test"), !.pc = "security"]]
    /\ UNCHANGED <<docker_available, canonical, image_built, storeVars, gitVars,
                   limiterVars, generatorVars, issueVars, analyzerVars,
                   branchVars, monitorVars>>

\* run_security_scan: a tool that cannot be started counts as passed.
ToolPassed(out) == IF out = "spawn_error" THEN TRUE ELSE out = "success"

run_security_scan(t, audit, clippy) ==
    /\ task[t].pc = "security"
    /\ task' = [task EXCEPT ![t] =
         [@ EXCEPT !.security_scan_passed = ToolPassed(audit) /\ ToolPassed(clippy),
                   !.security_outcome = ToolPassed(audit) /\ ToolPassed(clippy),
                   !.stages = Append(@, "security"), !.pc = "perf"]]
    /\ UNCHANGED <<docker_available, canonical, image_built, storeVars, gitVars,
                   limiterVars, generatorVars, issueVars, analyzerVars,
                   branchVars, monitorVars>>

\* measure_performance_impact: measure_binary_size (cargo build --release) and
\* run_benchmarks (never an error).
measure_performance_impact(t, out) ==
    /\ task[t].pc = "perf"
    /\ task' = [task EXCEPT ![t] =
         IF out = "spawn_error"
         THEN ReturnErr(@, "Failed to build release binary")
         ELSE [@ EXCEPT !.stages = Append(@, "performance"), !.pc = "collect"]]
    /\ UNCHANGED <<docker_available, canonical, image_built, storeVars, gitVars,
                   limiterVars, generatorVars, issueVars, analyzerVars,
                   branchVars, monitorVars>>

\* collect_issues, then lines 100-131: classify and return Ok(result).
ReturnOk(tk, status) ==
    [TempDirDrop(tk) EXCEPT !.pc = "done", !.result = "Ok", !.status = status]

collect_issues(t, out) ==
    /\ task[t].pc = "collect"
    /\ task' = [task EXCEPT ![t] =
         IF out = "spawn_error"
         THEN ReturnErr(@, "Failed to run cargo check with JSON output")
         ELSE ReturnOk(@, Classify(@.build_success, @.test_success,
                                   @.security_scan_passed))]
    /\ UNCHANGED <<docker_available, canonical, image_built, storeVars, gitVars,
                   limiterVars, generatorVars, issueVars, analyzerVars,
                   branchVars, monitorVars>>

\* validate_with_docker: docker build -t patch-validation in workspace_root.
docker_build(t, out) ==
    /\ task[t].pc = "docker_build"
    /\ task' = [task EXCEPT ![t] =
         CASE out = "spawn_error" -> ReturnErr(@, "Failed to build Docker image")
           [] out = "nonzero" -> ReturnErr(@, "Failed to build Docker image")
           [] OTHER -> [@ EXCEPT !.pc = "docker_run"]]
    /\ image_built' = (image_built \/ out = "success")
    /\ UNCHANGED <<docker_available, canonical, storeVars, gitVars,
                   limiterVars, generatorVars, issueVars, analyzerVars,
                   branchVars, monitorVars>>

\* docker run --rm -v workspace_root:/workspace patch-validation: the
\* container's working directory /workspace is the canonical workspace,
\* mounted read-write; what the tools write there lands in the canonical tree.
ContainerWrites(c, wrote) == IF wrote THEN [c EXCEPT !.artifacts = TRUE] ELSE c

\* The container runs the build and the tests; its exit status is theirs.
\* No security tool is run: `scan`, what run_security_scan returns for this
\* patch, is kept in security_outcome and is not read for the result.
docker_run(t, out, wrote, scan) ==
    /\ task[t].pc = "docker_run"
    /\ task' = [task EXCEPT ![t] =
         IF out = "spawn_error"
         THEN ReturnErr(@, "Failed to run validation in Docker")
         ELSE [ReturnOk(@, IF out = "success" THEN "Success" ELSE "Failed")
                 EXCEPT !.build_success = (out = "success"),
                        !.test_success = (out = "success"),
                        !.security_scan_passed = TRUE,
                        !.security_outcome = scan]]
    /\ canonical' = IF out = "spawn_error" THEN canonical
                    ELSE ContainerWrites(canonical, wrote)
    /\ UNCHANGED <<docker_available, image_built, storeVars, gitVars,
                   limiterVars, generatorVars, issueVars, analyzerVars,
                   branchVars, monitorVars>>

\* The caller takes the result; the task can validate another patch.
finish(t) ==
    /\ task[t].pc = "done"
    /\ task' = [task EXCEPT ![t] = IdleTask]
    /\ UNCHANGED <<docker_available, canonical, image_built, storeVars, gitVars,
                   limiterVars, generatorVars, issueVars, analyzerVars,
                   branchVars, monitorVars>>

ExitOutcomes == {"success", "nonzero", "spawn_error"}

ValidatorInit ==
    /\ docker_available \in BOOLEAN
    /\ canonical = CanonicalInit
    /\ image_built = FALSE
    /\ task = [t \in TaskIds |-> IdleTask]

\* The configured maximum number of concurrent validations, taken below the
\* number of callers.  ValidationConfig has no such field and the validator
\* reads none.
max_concurrent_validations == MaxTasks - 1

\* The validations in progress: entered and not yet returned.
InProgress == {t \in TaskIds : task[t].pc \notin {"idle", "done"}}

\* The directory a validation in progress runs its tools in and may write to:
\* its own temp dir, or the canonical workspace bind-mounted into the container.
WorkspaceOf(t) ==
    IF task[t].pc = "docker_run" THEN "current_dir" ELSE <<"temp_dir", t>>

\* The positions at which a task waits for a subprocess it started with
\* Command::status() or Command::output().
WaitingPcs == {"setup", "apply", "build", "test", "security", "perf",
               "collect", "docker_build", "docker_run"}

\* The subprocess a task waits for does not exit.  status() and output() block
\* until the child exits; ValidationConfig.timeout is not read by the
\* validator and no code kills a child, so the task stays in the call.
\* Of the locals of a call that never returns only the files on disk are seen.
subprocess_hangs(t) ==
    /\ task[t].pc \in WaitingPcs
    /\ task' = [task EXCEPT ![t] =
         [IdleTask EXCEPT !.pc = "blocked", !.temp_dir = task[t].temp_dir,
                          !.copy_patched = task[t].copy_patched,
                          !.patch_file = task[t].patch_file]]
    /\ UNCHANGED <<docker_available, canonical, image_built, storeVars, gitVars,
                   limiterVars, generatorVars, issueVars, analyzerVars,
                   branchVars, monitorVars>>

\* The steps of one validating task.
ValidatorStep(t) ==
    \/ \E entry \in {"validate_patch", "validate_with_docker"},
          fs \in {"ok", "tempdir_error", "write_error"} :
          StartValidation(t, entry, fs)
    \/ \E out \in ExitOutcomes : setup_test_workspace(t, out)
    \/ \E out \in {"applied", "conflict", "spawn_error", "write_error", "remove_error"} :
          validator_apply_patch(t, out)
    \/ \E out \in ExitOutcomes : check_build(t, out)
    \/ \E out \in ExitOutcomes : check_tests(t, out)
    \/ \E audit \in ExitOutcomes, clippy \in ExitOutcomes :
          run_security_scan(t, audit, clippy)
    \/ \E out \in ExitOutcomes : measure_performance_impact(t, out)
    \/ \E out \in ExitOutcomes : collect_issues(t, out)
    \/ \E out \in ExitOutcomes : docker_build(t, out)
    \/ \E out \in ExitOutcomes, wrote \in BOOLEAN, scan \in BOOLEAN :
          docker_run(t, out, wrote, scan)
    \/ subprocess_hangs(t)
    \/ finish(t)

ValidatorNext == \E t \in TaskIds : ValidatorStep(t)

\* =====================================================================
\* Git operations (git_operations.rs)
\* =====================================================================

\* Content of the tracked files: as first committed, as a patch leaves them,
\* or with conflict markers.
Content == {"orig", "patched", "conflict"}
NoCall == [outcome |-> "none", result |-> "none"]

\* is_working_directory_clean: repo.statuses(None) is empty, i.e. nothing
\* differs between HEAD, index and working directory, and no untracked file.
is_working_directory_clean ==
    /\ worktree = index
    /\ index = commit_trees[head]
    /\ ~temp_patch

\* What `git apply --3way <patch>` leaves in the working directory and index.
GitApply3way(content, outcome) ==
    CASE outcome = "applied" -> "patched"
      [] outcome = "conflict" -> "conflict"
      [] OTHER -> content

\* The error apply_patch returns when git apply exits with a failure.
ApplyFailure == "BranchError"

\* GitOperations::apply_patch: write temp_patch.patch, git apply --3way,
\* remove the file, then look at the exit status.
apply_patch(outcome, rm_ok) ==
    /\ \/ /\ outcome = "write_error"
          /\ UNCHANGED <<worktree, index, temp_patch>>
          /\ git_last' = [outcome |-> outcome, result |-> "io::Error"]
       \/ /\ outcome = "spawn_error"
          /\ temp_patch' = TRUE
          /\ UNCHANGED <<worktree, index>>
          /\ git_last' = [outcome |-> outcome, result |-> "io::Error"]
       \/ /\ outcome \in {"applied", "conflict", "rejected"}
          /\ worktree' = GitApply3way(worktree, outcome)
          /\ index' = GitApply3way(index, outcome)
          /\ temp_patch' = ~rm_ok
          /\ git_last' = [outcome |-> outcome,
                          result |-> IF ~rm_ok THEN "io::Error"
                                     ELSE IF outcome = "applied" THEN "Ok"
                                     ELSE ApplyFailure]
    /\ UNCHANGED <<commit_trees, head, backup_branches, storeVars, validatorVars,
                   limiterVars, generatorVars, issueVars, analyzerVars,
                   branchVars, monitorVars>>

\* commit_changes: add the given files to the index, write the tree, commit on
\* HEAD.  `all` says whether the changed files are among the given files.
commit_changes(all) ==
    LET staged == IF all THEN worktree ELSE index IN
    /\ Len(commit_trees) <= MaxCommits
    /\ index' = staged
    /\ commit_trees' = Append(commit_trees, staged)
    /\ head' = Len(commit_trees) + 1
    /\ git_last' = NoCall
    /\ UNCHANGED <<worktree, temp_patch, backup_branches, storeVars, validatorVars,
                   limiterVars, generatorVars, issueVars, analyzerVars,
                   branchVars, monitorVars>>

\* reset_to_commit: soft moves HEAD only; hard also resets index and files.
reset_to_commit(c, hard) ==
    /\ c \in 1..Len(commit_trees)
    /\ head' = c
    /\ index' = IF hard THEN commit_trees[c] ELSE index
    /\ worktree' = IF hard THEN commit_trees[c] ELSE worktree
    /\ git_last' = NoCall
    /\ UNCHANGED <<commit_trees, temp_patch, backup_branches, storeVars, validatorVars,
                   limiterVars, generatorVars, issueVars, analyzerVars,
                   branchVars, monitorVars>>

\* create_backup_branch on the current branch: checkout_branch(base) of the
\* branch that is checked out leaves files and index alone; then a branch
\* backup/<base>/<timestamp> is created at HEAD.  `ok` is FALSE when the
\* checkout or repo.branch(force = false) returns an error.
create_backup_branch(ok) ==
    /\ backup_branches' = IF ok THEN backup_branches \cup {head} ELSE backup_branches
    /\ git_last' = NoCall
    /\ UNCHANGED <<worktree, index, commit_trees, head, temp_patch,
                   storeVars, validatorVars,
                   limiterVars, generatorVars, issueVars, analyzerVars,
                   branchVars, monitorVars>>

\* What cherry_pick_commit and the calls after it can give.
PickOutcomes == {"conflict", "error", "ok"}

\* A cherry-pick that commits the picked tree with its conflicts.
PickCommitsConflicted(outcome) == outcome \in {"ok", "conflict"}

\* The commit is reached only past `if cherrypick.is_conflicted() { return
\* Err(GitError::MergeConflict) }` and the `?` of every call before it.
PickCommits(outcome) == outcome = "ok"

\* The call as git_last records it.
PickOutcome(outcome) ==
    CASE outcome = "conflict" -> "cherry_pick_conflict"
      [] outcome = "error" -> "cherry_pick_error"
      [] OTHER -> "cherry_pick_ok"

PickResult(outcome) ==
    CASE outcome = "conflict" -> "MergeConflict"
      [] outcome = "error" -> "GitError"
      [] OTHER -> "Ok"

\* cherry_pick: cherry_pick_commit builds the picked tree in memory; a
\* conflicted result returns MergeConflict, a write_tree or signature error
\* returns GitError, otherwise the tree is committed on HEAD.  Neither the
\* working directory nor the repository index is written.
cherry_pick(c, outcome) ==
    /\ c \in 1..Len(commit_trees)
    /\ IF PickCommits(outcome)
       THEN /\ Len(commit_trees) <= MaxCommits
            /\ commit_trees' = Append(commit_trees, commit_trees[c])
            /\ head' = Len(commit_trees) + 1
       ELSE UNCHANGED <<commit_trees, head>>
    /\ git_last' = [outcome |-> PickOutcome(outcome),
                    result |-> PickResult(outcome)]
    /\ UNCHANGED <<worktree, index, temp_patch, backup_branches,
                   storeVars, validatorVars,
                   limiterVars, generatorVars, issueVars, analyzerVars,
                   branchVars, monitorVars>>

GitInit ==
    /\ worktree = "orig"
    /\ index = "orig"
    /\ commit_trees = <<"orig">>
    /\ head = 1
    /\ temp_patch = FALSE
    /\ git_last = NoCall
    /\ backup_branches = {}
    /\ git_active = [t \in TaskIds |-> "idle"]

ApplyOutcomes == {"applied", "conflict", "rejected", "write_error", "spawn_error"}

\* One caller at a time: every method runs from call to return in one step.
GitNext ==
    \/ \E rm_ok \in BOOLEAN, outcome \in ApplyOutcomes :
          apply_patch(outcome, rm_ok) /\ UNCHANGED git_active
    \/ \E all \in BOOLEAN : commit_changes(all) /\ UNCHANGED git_active
    \/ \E c \in 1..(MaxCommits + 1), hard \in BOOLEAN :
          reset_to_commit(c, hard) /\ UNCHANGED git_active
    \/ \E c \in 1..(MaxCommits + 1), outcome \in PickOutcomes :
          cherry_pick(c, outcome) /\ UNCHANGED git_active

\* The methods of GitOperations that change the repository.
GitMutations == {"create_backup_branch", "checkout_branch", "commit_changes",
                 "reset_to_commit", "cherry_pick", "apply_patch"}
RiskyMutations == {"apply_patch", "reset_to_commit", "cherry_pick"}

\* A caller enters a method of GitOperations.  The struct holds the
\* Repository and its path and no lock: nothing is acquired or waited for.
git_call(t, op) ==
    /\ git_active[t] = "idle"
    /\ git_active' = [git_active EXCEPT ![t] = op]
    /\ UNCHANGED <<worktree, index, commit_trees, head, temp_patch, git_last,
                   backup_branches, storeVars, validatorVars,
                   limiterVars, generatorVars, issueVars, analyzerVars,
                   branchVars, monitorVars>>

\* The method a caller is inside of takes effect and returns.
git_return(t) ==
    /\ git_active[t] # "idle"
    /\ git_active' = [git_active EXCEPT ![t] = "idle"]
    /\ CASE git_active[t] = "apply_patch" ->
              \E outcome \in {"applied", "conflict"} : apply_patch(outcome, TRUE)
         [] git_active[t] = "commit_changes" -> commit_changes(TRUE)
         [] git_active[t] = "reset_to_commit" ->
              \E c \in 1..(MaxCommits + 1) : reset_to_commit(c, TRUE)
         [] git_active[t] = "cherry_pick" ->
              \E c \in 1..(MaxCommits + 1), outcome \in {"conflict", "error", "ok"} :
                 cherry_pick(c, outcome)
         [] git_active[t] = "create_backup_branch" ->
              \E ok \in BOOLEAN : create_backup_branch(ok)
         [] OTHER -> \* checkout_branch of the branch that is checked out
              UNCHANGED <<worktree, index, commit_trees, head, temp_patch,
                          git_last, backup_branches, storeVars, validatorVars,
                   limiterVars, generatorVars, issueVars, analyzerVars,
                   branchVars, monitorVars>>

\* Concurrent callers of one repository.
RepoNext ==
    \/ \E t \in TaskIds, op \in GitMutations : git_call(t, op)
    \/ \E t \in TaskIds : git_return(t)

\* =====================================================================
\* Rate limiter (llm_integration.rs)
\* =====================================================================

\* A request that is let through although the counter has reached the limit.
AdmitsUpToLimit(current, limit) == current <= limit

\* check_rate_limit line 414: `if current >= self.requests_per_minute` is
\* the rejection; a request is admitted otherwise.
Admits(current, limit) == current < limit

\* check_rate_limit: fetch_add(1) on the counter, whatever the outcome; over
\* the limit Err(RateLimit); otherwise a task is spawned that sleeps one
\* window and stores 0 in the counter, and the call returns Ok.
check_rate_limit ==
    LET current == current_requests
        ok == Admits(current, requests_per_minute)
    IN
    /\ requests_per_minute > 0
    /\ Len(calls) < MaxRequests
    /\ current_requests' = current + 1
    /\ calls' = Append(calls, [time |-> now, current |-> current,
                               result |-> IF ok THEN "Ok" ELSE "RateLimit",
                               reset_pending |-> ok])
    /\ UNCHANGED <<requests_per_minute, now, storeVars, validatorVars, gitVars,
                   generatorVars, issueVars, analyzerVars,
                   branchVars, monitorVars>>

\* The task spawned by the i-th call wakes from its sleep and stores 0.
reset_counter(i) ==
    /\ i \in 1..Len(calls)
    /\ calls[i].reset_pending
    /\ calls[i].time + Window <= now
    /\ current_requests' = 0
    /\ calls' = [calls EXCEPT ![i].reset_pending = FALSE]
    /\ UNCHANGED <<requests_per_minute, now, storeVars, validatorVars, gitVars,
                   generatorVars, issueVars, analyzerVars,
                   branchVars, monitorVars>>

\* Time passes.  A tick is long against the runtime's scheduling delay: the
\* tasks whose sleep has ended run before the next tick.
tick ==
    /\ now < MaxTime
    /\ \A i \in 1..Len(calls) :
          calls[i].reset_pending => calls[i].time + Window > now
    /\ now' = now + 1
    /\ UNCHANGED <<requests_per_minute, current_requests, calls, storeVars,
                   validatorVars, gitVars, generatorVars, issueVars, analyzerVars,
                   branchVars, monitorVars>>

\* RateLimiter::new(requests_per_minute): the counter starts at 0.
RateLimiter_new(n) ==
    /\ requests_per_minute = 0
    /\ requests_per_minute' = n
    /\ current_requests' = 0
    /\ UNCHANGED <<now, calls, storeVars, validatorVars, gitVars, generatorVars, issueVars, analyzerVars,
                   branchVars, monitorVars>>

\* requests_per_minute = 0: no limiter has been constructed yet.
LimiterInit ==
    /\ requests_per_minute = 0
    /\ current_requests = 0
    /\ now = 0
    /\ calls = <<>>

LimiterNext ==
    \/ \E n \in 1..MaxLimit : RateLimiter_new(n)
    \/ check_rate_limit
    \/ \E i \in 1..MaxRequests : reset_counter(i)
    \/ tick

\* =====================================================================
\* Patch generator (patch_generator.rs)
\* =====================================================================
\* The seven safety_patterns compiled in PatchGenerator::new.
SafetyPatterns == {"unsafe_block", "transmute", "mem_uninitialized", "ptr_read",
                  "ptr_write", "process_command", "std_fs"}

\* What analyze_safety reads of a code text: the patterns that match it,
\* whether it contains "Result" or "Option", whether it contains "unsafe".
\* A text matching `unsafe\s*\{` contains "unsafe".
Codes ==
    {c \in [matched : SUBSET SafetyPatterns, handles_errors : BOOLEAN,
            has_unsafe : BOOLEAN] :
        "unsafe_block" \in c.matched => c.has_unsafe}

\* The code with the text of a dangerous construct added to it.
AddConstruct(code, pattern) ==
    [code EXCEPT !.matched = @ \cup {pattern},
                 !.has_unsafe = @ \/ pattern = "unsafe_block"]

\* A safety analysis that takes nothing off for a matching pattern.
analyze_safety_no_denylist(code) ==
    LET s2 == IF ~code.handles_errors THEN 10 - 1 ELSE 10
        s3 == IF code.has_unsafe THEN s2 - 3 ELSE s2
    IN IF s3 < 0 THEN 0 ELSE s3

\* analyze_safety, in tenths: 1.0, minus 0.2 for each pattern that matches,
\* minus 0.1 without Result/Option, minus 0.3 with "unsafe", .max(0.0).
analyze_safety(code) ==
    LET s1 == 10 - 2 * Cardinality(code.matched)
        s2 == IF ~code.handles_errors THEN s1 - 1 ELSE s1
        s3 == IF code.has_unsafe THEN s2 - 3 ELSE s2
    IN IF s3 < 0 THEN 0 ELSE s3

\* calculate_confidence, in hundredths: 0.5, plus 0.2, 0.15, 0.1 and 0.05 for
\* the four indicators, .min(1.0).
calculate_confidence(confident, tested, quality, many_lines) ==
    LET score == 50 + (IF confident THEN 20 ELSE 0) + (IF tested THEN 15 ELSE 0)
                    + (IF quality THEN 10 ELSE 0) + (IF many_lines THEN 5 ELSE 0)
    IN IF score > 100 THEN 100 ELSE score

\* A completion text, by what the generator reads of it: its length, the
\* byte index of the first "---" and of the last "+++" (-1: absent), whether
\* it holds a fenced diff block, the confidence words, and the contents of the
\* text taken as diff.
Completions ==
    {c \in [len : {0, 50, 130, 250}, minus : {-1, 0, 120}, plus : {-1, 10, 20, 140},
            fenced : BOOLEAN, fenced_quality : BOOLEAN,
            confident : BOOLEAN, tested : BOOLEAN, many_lines : BOOLEAN,
            code : {k \in Codes : Cardinality(k.matched) \in {0, 1, 7}}] :
        /\ c.minus >= 0 => c.minus + 3 <= c.len
        /\ c.plus >= 0 => c.plus + 3 <= c.len
        /\ c.fenced => c.len >= 50
        /\ c.fenced_quality => c.fenced}

\* extract_diff: the slice content[diff_start..diff_end] with diff_start the
\* first "---" or 0 and diff_end 100 past the last "+++" or the length.  The
\* slice panics when its end is past the text or before its start; an empty
\* slice falls back to a fenced block or is an error.
extract_diff(c) ==
    LET diff_start == IF c.minus >= 0 THEN c.minus ELSE 0
        diff_end == IF c.plus >= 0 THEN c.plus + 100 ELSE c.len
    IN IF diff_start > diff_end \/ diff_end > c.len THEN "panic"
       ELSE IF diff_start # diff_end THEN "slice"
       ELSE IF c.fenced THEN "fenced"
       ELSE "Err"

\* Whether the extracted diff contains both "+++" and "---".
DiffQuality(c) ==
    IF extract_diff(c) = "slice"
    THEN c.minus >= 0 /\ c.plus >= 0 /\ c.minus < c.plus
    ELSE c.fenced_quality

\* get_original_code: the file is read and lines line-5 .. min(line+5, len)
\* are sliced; the slice panics for a line more than 5 past the end.
get_original_code(location) ==
    CASE location = "valid" -> "Ok"
      [] location = "unreadable" -> "Err"
      [] OTHER -> "panic"

\* The request send_request passes to the backend.  Neither generate_patch
\* nor LLMIntegration calls RateLimiter::check_rate_limit, and PatchGenerator
\* holds no limiter.
BackendRequest == [limiter_check |-> "none"]

NoPatch(result) == [result |-> result, confidence |-> 0, safety_score |-> 0,
                    validation_status |-> "none", issue_id |-> 0]

\* The texts apply_diff is given: original snippets, and diffs, of which the
\* no-op diffs change no line (file headers only, or context lines only).
Snippets == {"fn f() { 1 }", "fn g() { 2 }"}
NoOpDiffs == {"--- a/f.rs +++ b/f.rs", "--- a/f.rs +++ b/f.rs @@ fn f() { 1 }"}
Diffs == NoOpDiffs \cup {"--- a/f.rs +++ b/f.rs @@ -fn f() { 1 } +fn f() { 3 }"}

\* apply_diff copies the original into a local it never reads again and
\* returns the diff text as the patched code.
apply_diff(original, diff) == diff

\* The safety score, in tenths, below which the specification has a patch
\* rejected without review.  SecurityConfig has no such field and no code
\* compares safety_score with a threshold.
rejection_threshold == 5

\* A generated patch that starts as already valid.
InitialValidationStatusValid == "Valid"

\* validation_status: ValidationStatus::Pending in the GeneratedPatch literal.
InitialValidationStatus == "Pending"

\* The lines get_original_code takes before and after issue.line_number.
ContextLines == 5

\* get_original_code on a file of `lines` lines: read_to_string(..)?, then
\* &lines[line_number.saturating_sub(5) .. (line_number + 5).min(lines.len())].
Location(readable, line_number, lines) ==
    LET start_line == IF line_number > ContextLines
                      THEN line_number - ContextLines ELSE 0
        end_line == IF line_number + ContextLines < lines
                    THEN line_number + ContextLines ELSE lines
    IN IF ~readable THEN "unreadable"
       ELSE IF start_line > end_line THEN "past_end"
       ELSE "valid"

\* A source text, by what extract_public_functions reads of it: its function
\* declarations in order, each a name and the words before it.
FnForms == {"pub fn", "pub async fn", "pub const fn", "fn"}
FnNames == {"load", "store"}
Declarations == [name : FnNames, form : FnForms]
SourceTexts == UNION {[1..n -> Declarations] : n \in 0..MaxDecls}

\* extract_public_functions: every match of pub\s+(?:async\s+)?fn\s+(\w+),
\* in order, one entry per match.
RECURSIVE extract_public_functions(_)
extract_public_functions(code) ==
    IF code = <<>> THEN <<>>
    ELSE LET rest == extract_public_functions(Tail(code))
         IN IF Head(code).form \in {"pub fn", "pub async fn"}
            THEN <<Head(code).name>> \o rest
            ELSE rest

\* identify_breaking_changes: for each entry of the original's public
\* functions that the patched code's do not contain, one message.
RECURSIVE RemovedMessages(_, _)
RemovedMessages(original_pub_fns, patched_pub_fns) ==
    IF original_pub_fns = <<>> THEN <<>>
    ELSE LET fn_name == Head(original_pub_fns)
             rest == RemovedMessages(Tail(original_pub_fns), patched_pub_fns)
         IN IF \E i \in 1..Len(patched_pub_fns) : patched_pub_fns[i] = fn_name
            THEN rest
            ELSE <<"Removed public function: " \o fn_name>> \o rest

identify_breaking_changes(original, patched) ==
    RemovedMessages(extract_public_functions(original),
                    extract_public_functions(patched))

\* generate_patch: original code, completion from the backend, diff, scores.
\* `?` returns the first error; a panic unwinds out of the call.
GeneratePatch(issue_id, location, llm, c) ==
    IF get_original_code(location) # "Ok" THEN NoPatch(get_original_code(location))
    ELSE IF llm # "Ok" THEN NoPatch("Err")
    ELSE IF extract_diff(c) \in {"panic", "Err"} THEN NoPatch(extract_diff(c))
    ELSE [result |-> "Ok",
          confidence |-> calculate_confidence(c.confident, c.tested, DiffQuality(c),
                            extract_diff(c) = "slice" /\ c.many_lines),
          safety_score |-> analyze_safety(c.code),
          validation_status |-> InitialValidationStatus,
          issue_id |-> issue_id]

GenIdle == [pc |-> "idle", fn |-> "none", input |-> <<>>, output |-> <<>>,
            requests |-> <<>>]

PatchGenerator_generate_patch(issue_id, location, llm, c) ==
    /\ gen.pc = "idle"
    /\ gen' = [pc |-> "returned", fn |-> "generate_patch",
               input |-> [issue_id |-> issue_id, location |-> location,
                          llm |-> llm, completion |-> c],
               output |-> GeneratePatch(issue_id, location, llm, c),
               requests |-> IF get_original_code(location) = "Ok"
                            THEN <<BackendRequest>> ELSE <<>>]
    /\ UNCHANGED <<storeVars, validatorVars, gitVars, limiterVars,
                   issueVars, analyzerVars,
                   branchVars, monitorVars>>

\* The ranking key of generate_multiple_patches.
Score(patch) == patch.confidence * patch.safety_score

\* A comparison that also moves a patch before one of equal score.
IsLessOrEqual(a, b) == Score(b) <= Score(a)

\* The closure given to sort_by, score_b.partial_cmp(&score_a), is Less for
\* (a, b) exactly when b's score is below a's.
IsLess(a, b) == Score(b) < Score(a)

\* sort_by is a stable insertion sort on short slices: the new element moves
\* left past every predecessor it is less than.
RECURSIVE InsertTail(_, _)
InsertTail(sorted, x) ==
    IF sorted = <<>> THEN <<x>>
    ELSE LET last == sorted[Len(sorted)] IN
         IF IsLess(x, last)
         THEN Append(InsertTail(SubSeq(sorted, 1, Len(sorted) - 1), x), last)
         ELSE Append(sorted, x)

RECURSIVE SortByScore(_)
SortByScore(patches_) ==
    IF patches_ = <<>> THEN <<>>
    ELSE InsertTail(SortByScore(SubSeq(patches_, 1, Len(patches_) - 1)),
                    patches_[Len(patches_)])

\* What the i-th generate_patch call of a generate_multiple_patches returns.
CandidateOutcomes ==
    [result : {"Ok"}, confidence : 0..MaxScore, safety_score : 0..MaxScore]
        \cup {NoPatch("Err")}

\* The patches generated so far, tagged with their generation order.
Tagged(outs) == [i \in 1..Len(outs) |-> [order |-> i,
                                         confidence |-> outs[i].confidence,
                                         safety_score |-> outs[i].safety_score]]

\* generate_multiple_patches: `count` calls of generate_patch, the first error
\* returned by `?`; then the patches are sorted by score, highest first.
generate_multiple_patches(outs) ==
    LET failed == {i \in 1..Len(outs) : outs[i].result # "Ok"}
        sent == IF failed = {} THEN Len(outs)
                ELSE CHOOSE i \in failed : \A j \in failed : i <= j
    IN
    /\ gen.pc = "idle"
    /\ gen' = [pc |-> "returned", fn |-> "generate_multiple_patches",
               input |-> Tagged(outs),
               output |-> IF failed = {}
                          THEN [result |-> "Ok", patches |-> SortByScore(Tagged(outs))]
                          ELSE [result |-> "Err", patches |-> <<>>],
               requests |-> [i \in 1..sent |-> BackendRequest]]
    /\ UNCHANGED <<storeVars, validatorVars, gitVars, limiterVars,
                   issueVars, analyzerVars,
                   branchVars, monitorVars>>

\* analyze_safety called on a code text.
analyze_safety_call(code) ==
    /\ gen.pc = "idle"
    /\ gen' = [pc |-> "returned", fn |-> "analyze_safety", input |-> code,
               output |-> analyze_safety(code), requests |-> <<>>]
    /\ UNCHANGED <<storeVars, validatorVars, gitVars, limiterVars,
                   issueVars, analyzerVars,
                   branchVars, monitorVars>>

\* apply_diff called on an original snippet and a diff.
apply_diff_call(original, diff) ==
    /\ gen.pc = "idle"
    /\ gen' = [pc |-> "returned", fn |-> "apply_diff",
               input |-> [original |-> original, diff |-> diff],
               output |-> apply_diff(original, diff), requests |-> <<>>]
    /\ UNCHANGED <<storeVars, validatorVars, gitVars, limiterVars,
                   issueVars, analyzerVars,
                   branchVars, monitorVars>>

\* get_original_code called for an issue at line_number of a file of
\* `lines` lines.
get_original_code_call(readable, line_number, lines) ==
    /\ gen.pc = "idle"
    /\ gen' = [pc |-> "returned", fn |-> "get_original_code",
               input |-> [readable |-> readable, line_number |-> line_number,
                          lines |-> lines],
               output |-> get_original_code(Location(readable, line_number, lines)),
               requests |-> <<>>]
    /\ UNCHANGED <<storeVars, validatorVars, gitVars, limiterVars,
                   issueVars, analyzerVars, branchVars, monitorVars>>

\* identify_breaking_changes called on an original and a patched text.
identify_breaking_changes_call(original, patched) ==
    /\ gen.pc = "idle"
    /\ gen' = [pc |-> "returned", fn |-> "identify_breaking_changes",
               input |-> [original |-> original, patched |-> patched],
               output |-> identify_breaking_changes(original, patched),
               requests |-> <<>>]
    /\ UNCHANGED <<storeVars, validatorVars, gitVars, limiterVars,
                   issueVars, analyzerVars, branchVars, monitorVars>>

\* The caller takes the result; the generator is ready for the next call.
generator_ready ==
    /\ gen.pc = "returned"
    /\ gen' = GenIdle
    /\ UNCHANGED <<storeVars, validatorVars, gitVars, limiterVars,
                   issueVars, analyzerVars,
                   branchVars, monitorVars>>

GeneratorInit == gen = GenIdle

CandidateSeqs == UNION {[1..n -> CandidateOutcomes] : n \in 0..MaxCandidates}

\* The completion of a call that never reads one.
NoCompletion ==
    [len |-> 0, minus |-> -1, plus |-> -1, fenced |-> FALSE,
     fenced_quality |-> FALSE, confident |-> FALSE, tested |-> FALSE,
     many_lines |-> FALSE,
     code |-> [matched |-> {}, handles_errors |-> FALSE, has_unsafe |-> FALSE]]

GeneratorNext ==
    \/ /\ gen.pc = "idle"
       /\ \E location \in {"valid", "unreadable", "past_end"}, llm \in {"Ok", "Err"},
             c \in Completions :
             /\ (location = "valid" /\ llm = "Ok") \/ c = NoCompletion
             /\ \E issue_id \in IssueIds :
                   PatchGenerator_generate_patch(issue_id, location, llm, c)
    \/ /\ gen.pc = "idle"
       /\ \E outs \in CandidateSeqs : generate_multiple_patches(outs)
    \/ /\ gen.pc = "idle"
       /\ \E code \in Codes : analyze_safety_call(code)
    \/ /\ gen.pc = "idle"
       /\ \E original \in Snippets, diff \in Diffs : apply_diff_call(original, diff)
    \/ /\ gen.pc = "idle"
       /\ \E readable \in BOOLEAN, lines \in 0..MaxLines,
             line_number \in 0..(MaxLines + ContextLines + 1) :
             get_original_code_call(readable, line_number, lines)
    \/ /\ gen.pc = "idle"
       /\ \E original \in SourceTexts, patched \in SourceTexts :
             identify_breaking_changes_call(original, patched)
    \/ generator_ready

\* =====================================================================
\* Issue store (database.rs)
\* =====================================================================

\* database.rs IssueStatus: the status column of a stored issue.
IssueStatus == {"Open", "InProgress", "Resolved", "Rejected", "Duplicate"}

\* The timestamps Utc::now() gives the store; Null is a NULL resolved_at.
Stamps == 0..MaxStamp
Null == -1

NoIssue == [present |-> FALSE, status |-> "Open", resolved_at |-> Null]

\* An issue-store call other than cleanup_old_data has returned.
OtherCall == [op |-> "other", cutoff |-> Null]

\* INSERT INTO issues ... : status comes from the caller's Issue value,
\* resolved_at is not among the inserted columns.
create_issue(id, status) ==
    /\ ~issues[id].present
    /\ issues' = [issues EXCEPT ![id] =
                    [present |-> TRUE, status |-> status, resolved_at |-> Null]]
    /\ issue_last' = OtherCall
    /\ UNCHANGED <<storeVars, validatorVars, gitVars, limiterVars,
                   generatorVars, analyzerVars,
                   branchVars, monitorVars>>

\* UPDATE issues SET status = ?, updated_at = ? WHERE id = ?
update_issue_status(id, status) ==
    /\ issues' = [issues EXCEPT ![id] =
                    IF issues[id].present
                    THEN [issues[id] EXCEPT !.status = status]
                    ELSE issues[id]]
    /\ issue_last' = OtherCall
    /\ UNCHANGED <<storeVars, validatorVars, gitVars, limiterVars,
                   generatorVars, analyzerVars,
                   branchVars, monitorVars>>

\* UPDATE issues SET status = 'Resolved', resolved_at = ?, updated_at = ?
\* WHERE id = ?
resolve_issue(id, at) ==
    /\ issues' = [issues EXCEPT ![id] =
                    IF issues[id].present
                    THEN [issues[id] EXCEPT !.status = "Resolved",
                                            !.resolved_at = at]
                    ELSE issues[id]]
    /\ issue_last' = OtherCall
    /\ UNCHANGED <<storeVars, validatorVars, gitVars, limiterVars,
                   generatorVars, analyzerVars,
                   branchVars, monitorVars>>

\* A row cleanup_old_data would delete whatever its status.
ExpiredAnyStatus(row, cutoff) ==
    row.present /\ row.resolved_at # Null /\ row.resolved_at < cutoff

\* WHERE status = 'Resolved' AND resolved_at < ? : a NULL resolved_at
\* compares as NULL and the row stays.
Expired(row, cutoff) ==
    /\ row.present
    /\ row.status = "Resolved"
    /\ row.resolved_at # Null
    /\ row.resolved_at < cutoff

\* cleanup_old_data: cutoff_date = now - days_to_keep days, then
\* DELETE FROM issues WHERE status = 'Resolved' AND resolved_at < cutoff_date
cleanup_old_data(cutoff) ==
    /\ issues' = [id \in IssueIds |->
                    IF Expired(issues[id], cutoff) THEN NoIssue ELSE issues[id]]
    /\ issue_last' = [op |-> "cleanup_old_data", cutoff |-> cutoff]
    /\ UNCHANGED <<storeVars, validatorVars, gitVars, limiterVars,
                   generatorVars, analyzerVars,
                   branchVars, monitorVars>>

IssueInit ==
    /\ issues = [id \in IssueIds |-> NoIssue]
    /\ issue_last = [op |-> "none", cutoff |-> Null]

\* The cutoffs a call can compute: before, between and after every stamp.
Cutoffs == 0..(MaxStamp + 1)

\* Patch.issue_id: the issue a stored patch was generated for.
IssueOf(patch_id) == ((patch_id - 1) % MaxIssues) + 1

\* The issue store, and the patch operations of the same store that record a
\* patch, for an issue that is stored, and a failed validation of it.
IssuesNext ==
    \/ \E id \in IssueIds, status \in IssueStatus : create_issue(id, status)
    \/ \E id \in IssueIds, status \in IssueStatus : update_issue_status(id, status)
    \/ \E id \in IssueIds, at \in Stamps : resolve_issue(id, at)
    \/ \E cutoff \in Cutoffs : cleanup_old_data(cutoff)
    \/ issues[IssueOf(1)].present /\ create_patch(1, NewPatch)
    \/ update_patch_validation(1, "Failed")

\* =====================================================================
\* Static analyzer (static_analysis.rs)
\* =====================================================================

\* static_analysis.rs IssueType: the kinds an AnalysisIssue can have.
IssueType == {"Edition2024Compatibility", "DeprecatedUsage", "UnsafeCode",
              "Performance", "Security", "Style", "Complexity"}

\* A source file, by what analyze_file does with it: it cannot be read, it
\* does not parse, it parses and the visitor reports nothing, it parses and
\* the visitor reports an unsafe block.
FileKinds == {"unreadable", "unparsable", "clean", "unsafe_code"}

\* analyze_file: read_to_string(..)?, syn::parse_file(..)?, then the issues
\* the visitor collected.
analyze_file(kind) ==
    CASE kind = "unreadable" -> [result |-> "Err", issues |-> <<>>]
      [] kind = "unparsable" -> [result |-> "Err", issues |-> <<>>]
      [] kind = "clean" -> [result |-> "Ok", issues |-> <<>>]
      [] OTHER -> [result |-> "Ok", issues |-> <<"UnsafeCode">>]

AnalyzerIdle == [pc |-> "idle", files |-> <<>>, next |-> 1,
                 all_issues |-> <<>>, result |-> "none"]

\* analyze_project: the files find_rust_files returns, in its order.
analyze_project(files) ==
    /\ analysis.pc = "idle"
    /\ analysis' = [AnalyzerIdle EXCEPT !.pc = "loop", !.files = files]
    /\ UNCHANGED <<storeVars, validatorVars, gitVars, limiterVars,
                   generatorVars, issueVars,
                   branchVars, monitorVars>>

\* One turn of the loop: let issues = self.analyze_file(&file_path).await?;
\* all_issues.extend(issues).  `?` returns the error and drops all_issues.
analyze_file_step ==
    /\ analysis.pc = "loop"
    /\ analysis.next <= Len(analysis.files)
    /\ LET r == analyze_file(analysis.files[analysis.next])
       IN analysis' =
            IF r.result = "Err"
            THEN [analysis EXCEPT !.pc = "returned", !.result = "Err",
                                  !.all_issues = <<>>]
            ELSE [analysis EXCEPT !.next = @ + 1,
                    !.all_issues = @ \o [i \in 1..Len(r.issues) |->
                                           [file |-> analysis.next,
                                            issue_type |-> r.issues[i]]]]
    /\ UNCHANGED <<storeVars, validatorVars, gitVars, limiterVars,
                   generatorVars, issueVars,
                   branchVars, monitorVars>>

\* After the last file: Ok(all_issues).
analyze_project_return ==
    /\ analysis.pc = "loop"
    /\ analysis.next > Len(analysis.files)
    /\ analysis' = [analysis EXCEPT !.pc = "returned", !.result = "Ok"]
    /\ UNCHANGED <<storeVars, validatorVars, gitVars, limiterVars,
                   generatorVars, issueVars,
                   branchVars, monitorVars>>

\* The caller takes the result; the analyzer is ready for the next call.
analyzer_ready ==
    /\ analysis.pc = "returned"
    /\ analysis' = AnalyzerIdle
    /\ UNCHANGED <<storeVars, validatorVars, gitVars, limiterVars,
                   generatorVars, issueVars,
                   branchVars, monitorVars>>

AnalyzerInit == analysis = AnalyzerIdle

FileSeqs == UNION {[1..n -> FileKinds] : n \in 0..MaxFiles}

AnalyzerNext ==
    \/ /\ analysis.pc = "idle"
       /\ \E files \in FileSeqs : analyze_project(files)
    \/ analyze_file_step
    \/ analyze_project_return
    \/ analyzer_ready

\* =====================================================================
\* Branches of the repository (git_operations.rs)
\* =====================================================================

\* format!("self-heal/issue-{}/patch-{}", issue_id, patch_id)
PatchBranchName(issue_id, patch_id) ==
    "self-heal/issue-" \o ToString(issue_id) \o "/patch-" \o ToString(patch_id)

\* format!("backup/{}/{}", base_branch, timestamp), the timestamp being
\* Utc::now() formatted "%Y%m%d_%H%M%S": one value per second.
BackupBranchName(base_branch, timestamp) ==
    "backup/" \o base_branch \o "/" \o ToString(timestamp)

\* The ids patch branches are made for, and the branches backups are made of.
BranchKeys == {<<1, 1>>, <<1, 2>>}
BaseBranches == {"main", PatchBranchName(1, 1)}

BranchNames ==
    {"main"} \cup {PatchBranchName(k[1], k[2]) : k \in BranchKeys}
             \cup {BackupBranchName(b, ts) : b \in BaseBranches, ts \in 0..MaxSecond}

NoBranchCall == [op |-> "none", name |-> "", result |-> "none", base |-> "",
                 issue_id |-> 0, patch_id |-> 0]

\* A look-up that never finds the branch.
branch_exists_never(branch_name) == FALSE

\* branch_exists: some branch of repo.branches(None) has the name.
branch_exists(branch_name) == refs[branch_name] # 0

\* create_patch_branch: the name; Ok(name) at once when the branch exists,
\* otherwise repo.branch(name, HEAD commit, force = false).  Nothing is
\* checked out.
create_patch_branch(issue_id, patch_id) ==
    LET branch_name == PatchBranchName(issue_id, patch_id) IN
    /\ refs' = IF branch_exists(branch_name) THEN refs
               ELSE [refs EXCEPT ![branch_name] = refs[current_branch]]
    /\ branch_last' = [NoBranchCall EXCEPT !.op = "create_patch_branch",
                          !.name = branch_name, !.result = "Ok",
                          !.issue_id = issue_id, !.patch_id = patch_id]
    /\ UNCHANGED <<current_branch, checked_out, second>>
    /\ UNCHANGED <<storeVars, validatorVars, gitVars, limiterVars, generatorVars,
                   issueVars, analyzerVars, monitorVars>>

\* checkout_branch: revparse_ext(name)?, checkout_tree, set_head.
checkout_branch(branch_name) ==
    /\ IF branch_exists(branch_name)
       THEN /\ checked_out' = refs[branch_name]
            /\ current_branch' = branch_name
       ELSE UNCHANGED <<checked_out, current_branch>>
    /\ branch_last' = [NoBranchCall EXCEPT !.op = "checkout_branch",
                          !.name = branch_name,
                          !.result = IF branch_exists(branch_name)
                                     THEN "Ok" ELSE "GitError"]
    /\ UNCHANGED <<refs, second>>
    /\ UNCHANGED <<storeVars, validatorVars, gitVars, limiterVars, generatorVars,
                   issueVars, analyzerVars, monitorVars>>

\* create_backup_branch(base_branch): the name from the clock,
\* self.checkout_branch(base_branch)?, then repo.branch(name, HEAD commit,
\* force = false)?, which is an error when the name is taken.
GitOperations_create_backup_branch(base_branch) ==
    LET backup_name == BackupBranchName(base_branch, second)
        checked == branch_exists(base_branch)
        created == checked /\ ~branch_exists(backup_name)
    IN
    /\ IF checked
       THEN /\ checked_out' = refs[base_branch]
            /\ current_branch' = base_branch
       ELSE UNCHANGED <<checked_out, current_branch>>
    /\ refs' = IF created THEN [refs EXCEPT ![backup_name] = refs[base_branch]]
               ELSE refs
    /\ branch_last' = [NoBranchCall EXCEPT !.op = "create_backup_branch",
                          !.name = backup_name, !.base = base_branch,
                          !.result = IF created THEN "Ok" ELSE "GitError"]
    /\ UNCHANGED second
    /\ UNCHANGED <<storeVars, validatorVars, gitVars, limiterVars, generatorVars,
                   issueVars, analyzerVars, monitorVars>>

\* The newest commit: branches are never deleted and only move forward.
LatestCommit ==
    CHOOSE c \in 1..(MaxCommits + 1) :
        /\ \E n \in BranchNames : refs[n] = c
        /\ \A n \in BranchNames : refs[n] <= c

\* commit_changes as the branches see it: a new commit on the current_branch branch,
\* its files in the working tree.
branch_commit ==
    /\ LatestCommit <= MaxCommits
    /\ refs' = [refs EXCEPT ![current_branch] = LatestCommit + 1]
    /\ checked_out' = LatestCommit + 1
    /\ branch_last' = [NoBranchCall EXCEPT !.op = "commit_changes"]
    /\ UNCHANGED <<current_branch, second>>
    /\ UNCHANGED <<storeVars, validatorVars, gitVars, limiterVars, generatorVars,
                   issueVars, analyzerVars, monitorVars>>

\* The clock reaches the next second.
next_second ==
    /\ second < MaxSecond
    /\ second' = second + 1
    /\ branch_last' = NoBranchCall
    /\ UNCHANGED <<refs, current_branch, checked_out>>
    /\ UNCHANGED <<storeVars, validatorVars, gitVars, limiterVars, generatorVars,
                   issueVars, analyzerVars, monitorVars>>

BranchInit ==
    /\ refs = [n \in BranchNames |-> IF n = "main" THEN 1 ELSE 0]
    /\ current_branch = "main"
    /\ checked_out = 1
    /\ second = 0
    /\ branch_last = NoBranchCall

BranchNext ==
    \/ \E k \in BranchKeys : create_patch_branch(k[1], k[2])
    \/ \E n \in BaseBranches : checkout_branch(n)
    \/ \E b \in BaseBranches : GitOperations_create_backup_branch(b)
    \/ branch_commit
    \/ next_second

\* =====================================================================
\* Build monitor (build-monitor/src/monitor.rs)
\* =====================================================================

\* The services of config.services.services.
Services == {"api", "web"}

\* What check_service gives for a service: a BuildResult with one of these
\* statuses, or an error.
ResultStatuses == {"Success", "Failure", "Skipped"}

\* initialize_services: every service starts with no failure counted.
NewServiceStatus == [consecutive_failures |-> 0, current_status |-> "Unknown"]

\* The failures after which a failed build triggers a rollback.
RollbackThreshold == 3

\* A rollback on the first failure.
RollbackDueAtOnce(consecutive_failures) == consecutive_failures >= 1

\* if service_status.consecutive_failures >= 3 { self.trigger_rollback(..) }
RollbackDue(consecutive_failures) == consecutive_failures >= RollbackThreshold

\* handle_build_result, under the write lock of service_status: Success
\* resets the counter, Failure adds one and may trigger a rollback, any other
\* status leaves status and counter alone.
handle_build_result(service_name, status) ==
    LET st == service_status[service_name]
        failures == st.consecutive_failures + 1
    IN
    /\ Len(build_log) < MaxChecks
    /\ service_status' = [service_status EXCEPT ![service_name] =
         CASE status = "Success" ->
                [consecutive_failures |-> 0, current_status |-> "Success"]
           [] status = "Failure" ->
                [consecutive_failures |-> failures, current_status |-> "Failure"]
           [] OTHER -> st]
    /\ build_log' = Append(build_log, [service |-> service_name, outcome |-> status])
    /\ monitor_last' = [service |-> service_name, outcome |-> status,
                        rollback |-> status = "Failure" /\ RollbackDue(failures)]
    /\ UNCHANGED <<storeVars, validatorVars, gitVars, limiterVars, generatorVars,
                   issueVars, analyzerVars, branchVars>>

\* handle_build_failure: check_service returned an error; the status becomes
\* Error and the counter grows by one.  No rollback is triggered here.
handle_build_failure(service_name) ==
    /\ Len(build_log) < MaxChecks
    /\ service_status' = [service_status EXCEPT ![service_name] =
         [consecutive_failures |-> @.consecutive_failures + 1,
          current_status |-> "Error"]]
    /\ build_log' = Append(build_log, [service |-> service_name, outcome |-> "Error"])
    /\ monitor_last' = [service |-> service_name, outcome |-> "Error",
                        rollback |-> FALSE]
    /\ UNCHANGED <<storeVars, validatorVars, gitVars, limiterVars, generatorVars,
                   issueVars, analyzerVars, branchVars>>

MonitorInit ==
    /\ service_status = [s \in Services |-> NewServiceStatus]
    /\ build_log = <<>>
    /\ monitor_last = [service |-> "none", outcome |-> "none", rollback |-> FALSE]

\* check_all_services: each service is checked and its outcome handled.
MonitorNext ==
    \/ \E s \in Services, status \in ResultStatuses : handle_build_result(s, status)
    \/ \E s \in Services : handle_build_failure(s)

\* =====================================================================
\* Specifications
\* =====================================================================
Init == StoreInit /\ ValidatorInit /\ GitInit /\ LimiterInit /\ GeneratorInit
           /\ IssueInit /\ AnalyzerInit /\ BranchInit /\ MonitorInit

Next == StoreNext \/ ValidatorNext \/ GitNext \/ RepoNext \/ LimiterNext
           \/ GeneratorNext \/ IssuesNext \/ AnalyzerNext
           \/ BranchNext \/ MonitorNext

\* The store and the pipeline's patch status.
SpecStore == Init /\ [][StoreNext]_vars

\* Concurrent validation tasks of one PatchValidator.
SpecValidator == Init /\ [][ValidatorNext]_vars

\* One repository and its working directory.
SpecGit == Init /\ [][GitNext]_vars

\* One repository and the tasks that call its GitOperations concurrently.
SpecRepo == Init /\ [][RepoNext]_vars

\* One RateLimiter, its callers and its reset tasks.
SpecLimiter == Init /\ [][LimiterNext]_vars

\* One PatchGenerator.
SpecGenerator == Init /\ [][GeneratorNext]_vars

\* The issue table of the store.
SpecIssues == Init /\ [][IssuesNext]_vars

\* One StaticAnalyzer.
SpecAnalyzer == Init /\ [][AnalyzerNext]_vars

\* The branches of one repository and one caller of its GitOperations.
SpecBranches == Init /\ [][BranchNext]_vars

\* One BuildMonitor and its monitoring loop.
SpecMonitor == Init /\ [][MonitorNext]_vars

\* =====================================================================
\* Claims
\* =====================================================================

\* C1: a patch is applied only if its most recent validation status is Valid
\* (Success in the store); no patch becomes applied without a validation.
AppliedOnlyIfValid ==
    \A id \in PatchIds :
        patches[id].applied => patches[id].validation_status = "Success"

\* C2: an applied patch has a rollback patch (rollback_patch is not null).
AppliedHasRollback ==
    \A id \in PatchIds :
        patches[id].applied => patches[id].rollback_patch # "None"

\* Position of a stored status in the lifecycle: Pending, then Running
\* (Validating), then a final Success (Valid), Failed (Invalid) or Warning.
StatusRank(status) ==
    CASE status = "Pending" -> 0
      [] status = "Running" -> 1
      [] OTHER -> 2

\* C3: a stored patch's validation_status only moves forward; no operation
\* moves it back to an earlier status.
StatusMovesForward ==
    [][\A id \in PatchIds :
          patches[id].present =>
             StatusRank(patches'[id].validation_status)
                >= StatusRank(patches[id].validation_status)]_vars

\* C4: Rejected is terminal: once a patch is Rejected no operation changes its
\* status or marks it applied.
RejectedIsTerminal ==
    [][\A id \in PatchIds :
          (generated[id] = "Rejected" /\ patches[id].present) =>
             /\ generated'[id] = "Rejected"
             /\ patches'[id].validation_status = patches[id].validation_status
             /\ patches'[id].applied = patches[id].applied]_vars

\* C5: with two or more validations started, the canonical workspace is as it
\* was before validation: no validation step writes to it.
ConcurrentValidationLeavesCanonical ==
    Cardinality({t \in TaskIds : task[t].pc # "idle"}) >= 2
        => canonical = CanonicalInit

\* C6: a result of validate_patch is Success iff build, test and security all
\* passed, Warning iff build and test passed and security failed, Failed in
\* every other case.
ClassificationCorrect ==
    \A t \in TaskIds :
        (task[t].pc = "done" /\ task[t].result = "Ok" /\ task[t].stages = Stages) =>
            LET b == task[t].build_success
                ts == task[t].test_success
                sec == task[t].security_scan_passed
            IN /\ task[t].status = "Success" <=> (b /\ ts /\ sec)
               /\ task[t].status = "Warning" <=> (b /\ ts /\ ~sec)
               /\ task[t].status = "Failed" <=> ~(b /\ ts)

\* C6 witness: validate_patch returned Warning for build and test passed,
\* security failed.
ClassificationWitness ==
    \E t \in TaskIds :
        /\ task[t].pc = "done" /\ task[t].result = "Ok" /\ task[t].stages = Stages
        /\ task[t].build_success /\ task[t].test_success
        /\ ~task[t].security_scan_passed
        /\ task[t].status = "Warning"

\* C7: in every run whose patch applied cleanly all four stages are run, in
\* the order build, test, security, performance, whatever an earlier stage
\* did.
EveryStageRuns ==
    \A t \in TaskIds :
        (task[t].pc = "done" /\ task[t].apply_outcome = "applied")
            => task[t].stages = Stages

ConflictAbortsWithGitConflict ==
    \A t \in TaskIds :
        (task[t].pc = "done" /\ task[t].apply_outcome = "conflict") =>
            /\ task[t].result = "Err"
            /\ task[t].error = "GitConflict"
            /\ task[t].stages = <<>>

\* C10: a merge conflict in GitOperations::apply_patch returns a conflict
\* error (GitConflict) and leaves the working directory clean.
ConflictLeavesCleanTree ==
    git_last.outcome = "conflict" =>
        /\ git_last.result \in {"GitConflict", "MergeConflict"}
        /\ is_working_directory_clean

\* C11: every risky mutation (apply_patch, reset_to_commit, cherry_pick) is
\* entered only when a backup branch points at the HEAD current at that moment.
BackupPrecedesMutation ==
    [][\A t \in TaskIds :
          (git_active[t] = "idle" /\ git_active'[t] \in RiskyMutations)
              => head \in backup_branches]_vars

\* C12: no two mutating operations are in progress on one working tree at
\* the same time.
GitMutationsSerialized ==
    Cardinality({t \in TaskIds : git_active[t] \in GitMutations}) <= 1

\* C13: a validation run whose external tool hangs still goes on: the task
\* waiting for the tool has a next step (the timeout that ends the stage as
\* failed and leads to teardown and a result).
HungToolTimesOut ==
    \A t \in TaskIds : task[t].pc = "blocked" => ENABLED ValidatorStep(t)

\* C17: the validations in progress never exceed the configured maximum, and
\* no two of them have the same mutable workspace directory.
ValidationsBoundedAndIsolated ==
    /\ Cardinality(InProgress) <= max_concurrent_validations
    /\ \A t1 \in InProgress, t2 \in InProgress :
          t1 # t2 => WorkspaceOf(t1) # WorkspaceOf(t2)

\* The admitted calls made in the window-long interval that starts at tick s.
AdmittedWithin(s) ==
    {i \in 1..Len(calls) :
        calls[i].result = "Ok" /\ s <= calls[i].time /\ calls[i].time < s + Window}

\* C14: no interval of one window length contains more than N admitted
\* requests, N the limiter's requests_per_minute.
AtMostLimitPerWindow ==
    requests_per_minute > 0 =>
        \A s \in 0..MaxTime : Cardinality(AdmittedWithin(s)) <= requests_per_minute

\* Call i took the last free slot and every call after it up to j was
\* rejected.
ExhaustedBefore(i, j) ==
    /\ i < j
    /\ calls[i].result = "Ok"
    /\ calls[i].current = requests_per_minute - 1
    /\ \A k \in (i + 1)..(j - 1) : calls[k].result = "RateLimit"

BackendRequestsRateLimited ==
    gen.pc = "returned" =>
        \A i \in 1..Len(gen.requests) : gen.requests[i].limiter_check = "Ok"

\* C18: the list generate_multiple_patches returns holds the generated
\* patches ordered by confidence * safety_score, highest first, patches of
\* equal product in generation order.
RankedByScoreStable ==
    (gen.pc = "returned" /\ gen.fn = "generate_multiple_patches"
        /\ gen.output.result = "Ok") =>
        LET out == gen.output.patches IN
        /\ Len(out) = Len(gen.input)
        /\ {out[i] : i \in 1..Len(out)} = {gen.input[i] : i \in 1..Len(gen.input)}
        /\ \A i \in 1..Len(out), j \in 1..Len(out) :
              i < j => /\ Score(out[i]) >= Score(out[j])
                       /\ Score(out[i]) = Score(out[j]) => out[i].order < out[j].order

\* C18 witness: a returned list in which the last generated patch was moved
\* to the front and two patches of equal product follow in generation order.
RankedWitness ==
    /\ gen.pc = "returned" /\ gen.fn = "generate_multiple_patches"
    /\ gen.output.result = "Ok"
    /\ Len(gen.output.patches) = 3
    /\ gen.output.patches[1].order = 3
    /\ Score(gen.output.patches[2]) = Score(gen.output.patches[3])
    /\ gen.output.patches[2].confidence # gen.output.patches[3].confidence

\* C19: adding a dangerous construct to a code never raises its safety score,
\* and a construct the code did not have lowers the score strictly unless the
\* result is clamped at 0.
SafetyScoreMonotone ==
    (gen.pc = "returned" /\ gen.fn = "analyze_safety") =>
        \A p \in SafetyPatterns :
            LET added == analyze_safety(AddConstruct(gen.input, p)) IN
            /\ added <= gen.output
            /\ p \notin gen.input.matched => (added < gen.output \/ added = 0)

\* C19 witness: a code with error handling and an unsafe block scored 0.5,
\* below the 1.0 of the same code without the block.
SafetyScoreWitness ==
    /\ gen.pc = "returned" /\ gen.fn = "analyze_safety"
    /\ gen.input.matched = {"unsafe_block"} /\ gen.input.handles_errors
    /\ gen.output = 5
    /\ analyze_safety([gen.input EXCEPT !.matched = {}, !.has_unsafe = FALSE]) = 10

\* C20: for an issue with a valid location and any completion, generate_patch
\* returns a patch, with confidence and safety_score in [0, 1].
GeneratorReturnsScoredPatch ==
    (gen.pc = "returned" /\ gen.fn = "generate_patch"
        /\ gen.input.location = "valid" /\ gen.input.llm = "Ok") =>
        /\ gen.output.result = "Ok"
        /\ gen.output.confidence \in 0..100
        /\ gen.output.safety_score \in 0..10

DockerSameAsNative ==
    \A t \in TaskIds :
        (task[t].pc = "done" /\ task[t].result = "Ok") =>
            /\ task[t].security_scan_passed = task[t].security_outcome
            /\ task[t].status = Classify(task[t].build_success,
                                         task[t].test_success,
                                         task[t].security_outcome)

\* C21: a generated patch whose body contains std::process::Command gets a
\* safety score below the rejection threshold and the status Invalid.
CommandPatchRejected ==
    (gen.pc = "returned" /\ gen.fn = "generate_patch" /\ gen.output.result = "Ok"
        /\ "process_command" \in gen.input.completion.code.matched) =>
        /\ gen.output.safety_score < rejection_threshold
        /\ gen.output.validation_status = "Invalid"

\* C23: applying a no-op diff to an original snippet yields the original
\* snippet unchanged.
NoOpDiffIsIdentity ==
    (gen.pc = "returned" /\ gen.fn = "apply_diff"
        /\ gen.input.diff \in NoOpDiffs) =>
        gen.output = gen.input.original

\* C25: a completion with no fenced diff block and no "---"/"+++" header
\* pair makes diff extraction return an error, and never a panic or a diff.
NoValidDiffIsError ==
    (gen.pc = "returned" /\ gen.fn = "generate_patch"
        /\ gen.input.location = "valid" /\ gen.input.llm = "Ok"
        /\ ~gen.input.completion.fenced
        /\ ~(gen.input.completion.minus >= 0 /\ gen.input.completion.plus >= 0)) =>
        /\ extract_diff(gen.input.completion) = "Err"
        /\ gen.output.result = "Err"

\* C28: a cherry-pick that conflicts returns MergeConflict, creates no
\* commit, and leaves HEAD, the working tree and the index as they were.
CherryPickConflictAborts ==
    [][git_last'.outcome = "cherry_pick_conflict" =>
          /\ git_last'.result = "MergeConflict"
          /\ UNCHANGED <<commit_trees, head, worktree, index>>]_vars

CherryPickConflictWitness ==
    /\ git_last.outcome = "cherry_pick_conflict"
    /\ Len(commit_trees) > 1
    /\ worktree # commit_trees[head]

\* C24: for every applied patch, applying its rollback patch to the patched
\* content reproduces the content from before the patch.
RollbackRestoresOriginal ==
    \A id \in PatchIds :
        (patches[id].present /\ patches[id].applied) =>
            PatchRollback_rollback_patch("patched", patches[id].rollback_patch)
                = "orig"

\* C26: a file that does not parse is reported as an issue of kind
\* ParseError and every other file's issues are still returned.
ParseFailureReported ==
    (analysis.pc = "returned"
        /\ (\E i \in 1..Len(analysis.files) : analysis.files[i] = "unparsable")
        /\ (\A j \in 1..Len(analysis.files) : analysis.files[j] # "unreadable")) =>
        /\ analysis.result = "Ok"
        /\ \A i \in 1..Len(analysis.files) :
              /\ analysis.files[i] = "unparsable" =>
                    \E k \in 1..Len(analysis.all_issues) :
                        analysis.all_issues[k] =
                            [file |-> i, issue_type |-> "ParseError"]
              /\ analysis.files[i] = "unsafe_code" =>
                    \E k \in 1..Len(analysis.all_issues) :
                        analysis.all_issues[k] =
                            [file |-> i, issue_type |-> "UnsafeCode"]

\* C29: an issue's status only moves forward along Open, InProgress, then
\* Resolved, Rejected or Duplicate, and never leaves one of the last three.
IssueStatusForwardOnly ==
    [][\A id \in IssueIds :
          (issues[id].present /\ issues'[id].present) =>
              LET rank == [st \in IssueStatus |->
                             CASE st = "Open" -> 0
                               [] st = "InProgress" -> 1
                               [] OTHER -> 2]
              IN /\ rank[issues'[id].status] >= rank[issues[id].status]
                 /\ rank[issues[id].status] = 2 =>
                       issues'[id].status = issues[id].status]_vars

\* C30: an issue leaves the store only in cleanup_old_data, which removes
\* exactly the issues that are Resolved with resolved_at before the cutoff and
\* leaves every other issue as it was.
OnlyCleanupDeletes ==
    [][/\ issue_last'.op = "cleanup_old_data" =>
            \A id \in IssueIds :
                IF /\ issues[id].present
                   /\ issues[id].status = "Resolved"
                   /\ issues[id].resolved_at # Null
                   /\ issues[id].resolved_at < issue_last'.cutoff
                THEN ~issues'[id].present
                ELSE issues'[id] = issues[id]
       /\ issue_last'.op # "cleanup_old_data" =>
            \A id \in IssueIds : issues[id].present => issues'[id].present]_vars

\* A cleanup has just deleted a resolved issue and kept one that was resolved
\* at or after the cutoff, while a patch of the store has failed validation.
OnlyCleanupDeletesWitness ==
    /\ issue_last.op = "cleanup_old_data"
    /\ \E id \in IssueIds : ~issues[id].present
    /\ \E id \in IssueIds :
          /\ issues[id].present
          /\ issues[id].status = "Resolved"
          /\ issues[id].resolved_at >= issue_last.cutoff
    /\ patches[1].present /\ patches[1].validation_status = "Failed"

BackupBranchOnlyAdds ==
    [][(branch_last'.op = "create_backup_branch"
           /\ refs[branch_last'.base] # 0) =>
          LET name == branch_last'.name IN
          /\ branch_last'.result = "Ok"
          /\ name = "backup/" \o branch_last'.base \o "/" \o ToString(second)
          /\ refs[name] = 0
          /\ refs' = [refs EXCEPT ![name] = refs[branch_last'.base]]
          /\ current_branch' = current_branch
          /\ checked_out' = checked_out]_vars

UnrunStageNotPassed ==
    [][\A t \in TaskIds, audit \in ExitOutcomes, clippy \in ExitOutcomes :
          ("spawn_error" \in {audit, clippy}
              /\ run_security_scan(t, audit, clippy)) =>
              ~task'[t].security_scan_passed]_vars

\* C33: after GitOperations::apply_patch returns, however git ended, no
\* temporary patch file remains in the repository directory.
TempPatchFileReleased ==
    git_last.outcome \in ApplyOutcomes => ~temp_patch

\* C38: a patch whose latest validation status is Warning is not marked
\* applied.
WarningNeverApplied ==
    [][\A id \in PatchIds :
          (patches[id].present /\ ~patches[id].applied /\ patches'[id].applied) =>
              patches[id].validation_status # "Warning"]_vars

\* C34: get_original_code returns the code or an error, and never panics,
\* for a line number of 0, one past the end of the file, or an unreadable
\* file.
OriginalCodeNeverPanics ==
    (gen.pc = "returned" /\ gen.fn = "get_original_code") =>
        gen.output \in {"Ok", "Err"}

BreakingChangesExact ==
    (gen.pc = "returned" /\ gen.fn = "identify_breaking_changes") =>
        LET visible(code) ==
                {code[i].name : i \in {j \in 1..Len(code) :
                    code[j].form \in {"pub fn", "pub async fn", "pub const fn"}}}
            removed == visible(gen.input.original) \ visible(gen.input.patched)
            out == gen.output
        IN /\ \A n \in removed :
                 Cardinality({i \in 1..Len(out) :
                     out[i] = "Removed public function: " \o n}) = 1
           /\ \A i \in 1..Len(out) :
                 \E n \in removed : out[i] = "Removed public function: " \o n

\* C40: every stored patch refers to an issue that is still in the store,
\* and every issue with status Resolved has resolved_at set.
PatchesReferToStoredIssues ==
    /\ \A p \in PatchIds :
          patches[p].present => issues[IssueOf(p)].present
    /\ \A id \in IssueIds :
          (issues[id].present /\ issues[id].status = "Resolved") =>
              issues[id].resolved_at # Null

====
